---- MODULE Spec2Model ----
(***************************************************************************)
(* A model of the JWT request-authentication middleware                    *)
(* (package jwtmiddleware, jwtmiddleware.go).                              *)
(*                                                                         *)
(* Go strings are sequences of one-character strings, so that              *)
(* strings.Split, strings.ToLower, header-name canonicalisation and query  *)
(* parsing are computed on the characters.  A nil interface / pointer is   *)
(* the empty sequence Nil, a nil error is NilErr.                          *)
(*                                                                         *)
(* Configurations range over the data model of the middleware: the         *)
(* extractor and the error handler are functions, the user property is a   *)
(* non-nil comparable value (context.WithValue panics on any other key).   *)
(***************************************************************************)
EXTENDS Integers, Sequences, FiniteSets, TLC

\* m       the middleware instance under test
\* h       the downstream handler: the middleware instances wrapped below m
\*         (outermost first) and the final handler function
\* args    the option list New was called with to make m
\* reqIn   the parts the incoming request was made from
\* r       the incoming request
\* served  per adapter, the outcome of serving r through it (Nil: not yet)
\* ret     the result of the last direct call of an exported function
\* procs   the requests being handled concurrently through m: per request,
\*         its position in the pipeline and its local variables
VARIABLES m, h, args, reqIn, r, served, ret, procs

vars == <<m, h, args, reqIn, r, served, ret, procs>>

\* ------------------------------------------------------------------------
\* Bounds
\* ------------------------------------------------------------------------
\* longest option list passed to New
MaxOpts == 2
\* most space-separated words in an Authorization header value
MaxWords == 3
\* most key=value pairs in a URL query
MaxPairs == 2
\* most middleware instances wrapped below the outermost one
MaxInner == 2
\* requests handled concurrently through one middleware
NumReqs == 2

\* ------------------------------------------------------------------------
\* Values
\* ------------------------------------------------------------------------
Nil == <<>>
NilErr == "<nil>"

\* jwtmiddleware.go:14
ErrEmptyToken == "mdw: empty token"
\* jwtmiddleware.go:16
ErrTokenMalformed == "mdw: invalid token format"
\* jwtmiddleware.go:65
ErrQueryNotFound == "could not get query string value"
\* errors of the jwt library
ErrSignatureInvalid == "jwt.ErrSignatureInvalid"
ValidationErrorMalformed == "jwt.ValidationError{Malformed}"
ValidationErrorUnverifiable == "jwt.ValidationError{Unverifiable}"
ValidationErrorSignatureInvalid == "jwt.ValidationError{SignatureInvalid}"
\* an error made by a caller-supplied extractor
ErrCustomExtractor == "custom extractor error"

StatusOK == 200
StatusBadRequest == 400
StatusUnauthorized == 401

\* ------------------------------------------------------------------------
\* strings
\* ------------------------------------------------------------------------
lowerOf ==
  ("A" :> "a") @@ ("B" :> "b") @@ ("C" :> "c") @@ ("D" :> "d") @@ ("E" :> "e") @@
  ("F" :> "f") @@ ("G" :> "g") @@ ("H" :> "h") @@ ("I" :> "i") @@ ("J" :> "j") @@
  ("K" :> "k") @@ ("L" :> "l") @@ ("M" :> "m") @@ ("N" :> "n") @@ ("O" :> "o") @@
  ("P" :> "p") @@ ("Q" :> "q") @@ ("R" :> "r") @@ ("S" :> "s") @@ ("T" :> "t") @@
  ("U" :> "u") @@ ("V" :> "v") @@ ("W" :> "w") @@ ("X" :> "x") @@ ("Y" :> "y") @@
  ("Z" :> "z")

upperOf == [c \in {lowerOf[u] : u \in DOMAIN lowerOf} |->
              CHOOSE u \in DOMAIN lowerOf : lowerOf[u] = c]

LowerRune(c) == IF c \in DOMAIN lowerOf THEN lowerOf[c] ELSE c
UpperRune(c) == IF c \in DOMAIN upperOf THEN upperOf[c] ELSE c

\* strings.ToLower
ToLower(s) == [i \in 1..Len(s) |-> LowerRune(s[i])]

\* strings.Split(s, sep) for a one-character separator
RECURSIVE Split(_, _)
Split(s, sep) ==
  IF \E i \in 1..Len(s) : s[i] = sep
  THEN LET i == CHOOSE k \in 1..Len(s) : s[k] = sep /\ \A j \in 1..(k-1) : s[j] # sep
       IN  <<SubSeq(s, 1, i-1)>> \o Split(SubSeq(s, i+1, Len(s)), sep)
  ELSE <<s>>

\* strings.Cut(s, sep): the text before and after the first sep
Cut(s, sep) ==
  IF \E i \in 1..Len(s) : s[i] = sep
  THEN LET i == CHOOSE k \in 1..Len(s) : s[k] = sep /\ \A j \in 1..(k-1) : s[j] # sep
       IN  [before |-> SubSeq(s, 1, i-1), after |-> SubSeq(s, i+1, Len(s))]
  ELSE [before |-> s, after |-> <<>>]

\* the words joined by sep
RECURSIVE Join(_, _)
Join(ws, sep) ==
  IF ws = <<>> THEN <<>>
  ELSE IF Len(ws) = 1 THEN ws[1]
  ELSE ws[1] \o <<sep>> \o Join(Tail(ws), sep)

\* all sequences over S of length at most n
SeqsUpTo(S, n) == UNION {[1..k -> S] : k \in 0..n}

\* ------------------------------------------------------------------------
\* net/http: header, URL query, response recorder, request context
\* ------------------------------------------------------------------------
\* textproto.CanonicalMIMEHeaderKey: upper-case the first letter and every
\* letter after a hyphen, lower-case the others
CanonicalMIMEHeaderKey(s) ==
  [i \in 1..Len(s) |->
     IF i = 1 \/ s[i-1] = "-" THEN UpperRune(s[i]) ELSE LowerRune(s[i])]

\* http.Header.Set
HeaderSet(hdr, key, value) == (CanonicalMIMEHeaderKey(key) :> <<value>>) @@ hdr

\* http.Header.Get: the first value stored under the canonical key, or ""
HeaderGet(hdr, key) ==
  LET ck == CanonicalMIMEHeaderKey(key)
  IN  IF ck \in DOMAIN hdr /\ Len(hdr[ck]) > 0 THEN hdr[ck][1] ELSE <<>>

\* url.Values.Get over url.URL.Query(): the pairs of the raw query are
\* separated by "&", a pair is cut at its first "=", empty pairs are skipped
\* and the first value of the key is returned, or ""
QueryGet(rawQuery, key) ==
  LET pieces == SelectSeq(Split(rawQuery, "&"), LAMBDA p : p # <<>>)
      hits   == SelectSeq(pieces, LAMBDA p : Cut(p, "=").before = key)
  IN  IF hits = <<>> THEN <<>> ELSE Cut(hits[1], "=").after

\* httptest.NewRecorder
NewRecorder == [Code |-> StatusOK, Body |-> <<>>, wroteHeader |-> FALSE]

\* ResponseWriter.WriteHeader: only the first call sets the status
WriteHeader(w, code) ==
  IF w.wroteHeader THEN w ELSE [w EXCEPT !.Code = code, !.wroteHeader = TRUE]

\* ResponseWriter.Write: writes the header with 200 when none was written
Write(w, body) ==
  LET w1 == WriteHeader(w, StatusOK) IN [w1 EXCEPT !.Body = Append(@, body)]

\* context.Context.Value: the innermost entry stored under key, or nil
RECURSIVE ContextValue(_, _)
ContextValue(ctx, key) ==
  IF ctx = <<>> THEN Nil
  ELSE IF ctx[Len(ctx)][1] = key THEN ctx[Len(ctx)][2]
  ELSE ContextValue(SubSeq(ctx, 1, Len(ctx) - 1), key)

\* context.WithValue: a new context whose parent is ctx
ContextWithValue(ctx, key, val) == Append(ctx, <<key, val>>)

\* ------------------------------------------------------------------------
\* jwtmiddleware.go
\* ------------------------------------------------------------------------
Authorization == <<"A","u","t","h","o","r","i","z","a","t","i","o","n">>
bearer == <<"b","e","a","r","e","r">>

\* BearerExtractor comparing the scheme without lower-casing it
BearerExtractorCaseSensitive(req) ==
  LET token == HeaderGet(req.Header, Authorization)
      parts == Split(token, " ")
  IN  IF token = <<>> THEN [token |-> <<>>, err |-> ErrEmptyToken]
      ELSE IF Len(parts) # 2 \/ parts[1] # bearer \/ parts[2] = <<>>
           THEN [token |-> <<>>, err |-> ErrTokenMalformed]
           ELSE [token |-> parts[2], err |-> NilErr]

\* BearerExtractor accepting any header of at least two parts
BearerExtractorAtLeastTwo(req) ==
  LET token == HeaderGet(req.Header, Authorization)
      parts == Split(token, " ")
  IN  IF token = <<>> THEN [token |-> <<>>, err |-> ErrEmptyToken]
      ELSE IF Len(parts) < 2 \/ ToLower(parts[1]) # bearer \/ parts[2] = <<>>
           THEN [token |-> <<>>, err |-> ErrTokenMalformed]
           ELSE [token |-> parts[2], err |-> NilErr]

\* BearerExtractor gets the jwt token from the `Authorization` header
BearerExtractor(req) ==
  LET token == HeaderGet(req.Header, Authorization)
      parts == Split(token, " ")
  IN  IF token = <<>> THEN [token |-> <<>>, err |-> ErrEmptyToken]
      ELSE IF Len(parts) # 2 \/ ToLower(parts[1]) # bearer \/ parts[2] = <<>>
           THEN [token |-> <<>>, err |-> ErrTokenMalformed]
           ELSE [token |-> parts[2], err |-> NilErr]

\* an extractor that returns an empty value of the parameter as a token
QueryStringExtractorAnyValue(param, req) ==
  LET pieces == SelectSeq(Split(req.RawQuery, "&"), LAMBDA p : p # <<>>)
  IN  IF \E i \in 1..Len(pieces) : Cut(pieces[i], "=").before = param
      THEN [token |-> QueryGet(req.RawQuery, param), err |-> NilErr]
      ELSE [token |-> <<>>, err |-> ErrQueryNotFound]

\* the extractor returned by QueryStringExtractor(param)
QueryStringExtractor(param, req) ==
  LET query == QueryGet(req.RawQuery, param)
  IN  IF query # <<>> THEN [token |-> query, err |-> NilErr]
      ELSE [token |-> <<>>, err |-> ErrQueryNotFound]

\* ------------------------------------------------------------------------
\* github.com/dgrijalva/jwt-go, as far as parseToken depends on it.
\* A token string is header "." claims "." signature.  The header segment
\* is one character that stands for the encoded JSON header and names the
\* algorithm; the signature segment is one character that stands for the
\* MAC of the first two segments under (algorithm, key).
\* ------------------------------------------------------------------------
SigningMethodHS256 == <<[Name |-> "HS256"]>>
SigningMethodHS384 == <<[Name |-> "HS384"]>>
SigningMethodES512 == <<[Name |-> "ES512"]>>

\* SigningMethod.Alg
Alg(method) == method[1].Name

\* the "alg" a header segment decodes to; any other segment does not decode
headerAlg == ("h" :> "HS256") @@ ("g" :> "HS384") @@ ("u" :> "XS000")

\* jwt.GetSigningMethod: the registered HMAC methods
registeredAlgs == {"HS256", "HS384"}

secret == <<"s","e","c","r","e","t">>
wrong == <<"w","r","o","n","g">>

\* the signature segment an HMAC method produces with a key
hmacSignature ==
  (<<"HS256", secret>> :> <<"s">>) @@ (<<"HS256", wrong>> :> <<"w">>) @@
  (<<"HS384", secret>> :> <<"S">>) @@ (<<"HS384", wrong>> :> <<"W">>)

NilToken == [Raw |-> <<>>, Header |-> [alg |-> ""], Valid |-> FALSE]

\* jwt.Parse(tokenString, keyFunc) with a keyFunc that returns key
jwtParse(tokenString, key) ==
  LET parts == Split(tokenString, ".")
  IN  IF Len(parts) # 3 \/ Len(parts[1]) # 1 THEN [token |-> NilToken, err |-> ValidationErrorMalformed]
      ELSE IF parts[1][1] \notin DOMAIN headerAlg
           THEN [token |-> NilToken, err |-> ValidationErrorMalformed]
      ELSE LET alg == headerAlg[parts[1][1]]
           IN  IF alg \notin registeredAlgs
               THEN [token |-> NilToken, err |-> ValidationErrorUnverifiable]
               ELSE IF key = Nil \/ <<alg, key[1]>> \notin DOMAIN hmacSignature
                         \/ hmacSignature[<<alg, key[1]>>] # parts[3]
                    THEN [token |-> NilToken, err |-> ValidationErrorSignatureInvalid]
                    ELSE [token |-> [Raw |-> tokenString, Header |-> [alg |-> alg],
                                     Valid |-> TRUE],
                          err |-> NilErr]

\* ------------------------------------------------------------------------
\* options and New
\* ------------------------------------------------------------------------
\* extractors: the two of the package and two supplied by a caller
BearerExtractorFn == [kind |-> "BearerExtractor", param |-> <<>>]
QueryStringExtractorFn(param) == [kind |-> "QueryStringExtractor", param |-> param]
\* func extractor(_ *http.Request) (string, error) { return "", nil }
emptyExtractorFn == [kind |-> "extractor", param |-> <<>>]
failingExtractorFn == [kind |-> "failing", param |-> <<>>]

\* a call of a TokenExtractor value
CallExtractor(e, req) ==
  CASE e.kind = "BearerExtractor"      -> BearerExtractor(req)
    [] e.kind = "QueryStringExtractor" -> QueryStringExtractor(e.param, req)
    [] e.kind = "extractor"            -> [token |-> <<>>, err |-> NilErr]
    [] OTHER                           -> [token |-> <<>>, err |-> ErrCustomExtractor]

\* onError writing the text of the error as the body
onErrorWritesError(w, req, err) == Write(WriteHeader(w, StatusUnauthorized), err)

\* func onError: 401 and "unauthorized", whatever the request and the error
onError(w, req, err) == Write(WriteHeader(w, StatusUnauthorized), "unauthorized")

\* a call of an errorHandler value: onError, or the handler of TestNew
CallErrorHandler(eh, w, req, err) ==
  CASE eh = "onError" -> onError(w, req, err)
    [] OTHER          -> Write(WriteHeader(w, StatusBadRequest), "bad request")

WithErrorHandler(handler) == [fn |-> "WithErrorHandler", arg |-> handler]
WithExtractor(extractor) == [fn |-> "WithExtractor", arg |-> extractor]
WithSigningMethod(method) == [fn |-> "WithSigningMethod", arg |-> method]
WithSignKey(key) == [fn |-> "WithSignKey", arg |-> key]
WithUserProperty(property) == [fn |-> "WithUserProperty", arg |-> property]

\* a call w(defaults) of a MiddlewareOption
ApplyOption(o, opts) ==
  CASE o.fn = "WithErrorHandler"  -> [opts EXCEPT !.errorHandler = o.arg]
    [] o.fn = "WithExtractor"     -> [opts EXCEPT !.extractor = o.arg]
    [] o.fn = "WithSigningMethod" -> [opts EXCEPT !.signingMethod = o.arg]
    [] o.fn = "WithSignKey"       -> [opts EXCEPT !.signKey = o.arg]
    [] o.fn = "WithUserProperty"  -> [opts EXCEPT !.userProperty = o.arg]

defaults ==
  [userProperty  |-> "user",
   signingMethod |-> SigningMethodHS256,
   errorHandler  |-> "onError",
   extractor     |-> BearerExtractorFn,
   signKey       |-> Nil]

\* the options applied so that the first write of a field wins
RECURSIVE ApplyAllFirstWins(_, _)
ApplyAllFirstWins(optList, opts) ==
  IF optList = <<>> THEN opts
  ELSE ApplyOption(Head(optList), ApplyAllFirstWins(Tail(optList), opts))

RECURSIVE ApplyAll(_, _)
ApplyAll(optList, opts) ==
  IF optList = <<>> THEN opts
  ELSE ApplyAll(Tail(optList), ApplyOption(Head(optList), opts))

\* New creates an instance of the jwt middleware
New(optList) == [options |-> ApplyAll(optList, defaults)]

\* ------------------------------------------------------------------------
\* the pipeline
\* ------------------------------------------------------------------------
\* parseToken without the check of the algorithm
parseTokenNoAlgCheck(mw, req) ==
  LET e == CallExtractor(mw.options.extractor, req)
      t == jwtParse(e.token, mw.options.signKey)
  IN  IF e.err # NilErr
      THEN [token |-> NilToken, err |-> e.err, steps |-> <<"extractor">>]
      ELSE IF e.token = <<>>
      THEN [token |-> NilToken, err |-> ErrEmptyToken, steps |-> <<"extractor", "empty">>]
      ELSE IF t.err # NilErr
      THEN [token |-> NilToken, err |-> t.err, steps |-> <<"extractor", "empty", "jwt.Parse">>]
      ELSE [token |-> t.token, err |-> NilErr,
            steps |-> <<"extractor", "empty", "jwt.Parse", "alg">>]

\* parseToken handing an empty token string to the library
parseTokenNoEmptyCheck(mw, req) ==
  LET e == CallExtractor(mw.options.extractor, req)
      t == jwtParse(e.token, mw.options.signKey)
  IN  IF e.err # NilErr
      THEN [token |-> NilToken, err |-> e.err, steps |-> <<"extractor">>]
      ELSE IF t.err # NilErr
      THEN [token |-> NilToken, err |-> t.err, steps |-> <<"extractor", "jwt.Parse">>]
      ELSE IF mw.options.signingMethod # Nil
              /\ t.token.Header.alg # Alg(mw.options.signingMethod)
      THEN [token |-> NilToken, err |-> ErrSignatureInvalid,
            steps |-> <<"extractor", "jwt.Parse", "alg">>]
      ELSE [token |-> t.token, err |-> NilErr,
            steps |-> <<"extractor", "jwt.Parse", "alg">>]

\* parseToken; steps lists the steps that ran, in order
parseToken(mw, req) ==
  LET e == CallExtractor(mw.options.extractor, req)
      t == jwtParse(e.token, mw.options.signKey)
  IN  IF e.err # NilErr
      THEN [token |-> NilToken, err |-> e.err, steps |-> <<"extractor">>]
      ELSE IF e.token = <<>>
      THEN [token |-> NilToken, err |-> ErrEmptyToken, steps |-> <<"extractor", "empty">>]
      ELSE IF t.err # NilErr
      THEN [token |-> NilToken, err |-> t.err, steps |-> <<"extractor", "empty", "jwt.Parse">>]
      ELSE IF mw.options.signingMethod # Nil
              /\ t.token.Header.alg # Alg(mw.options.signingMethod)
      THEN [token |-> NilToken, err |-> ErrSignatureInvalid,
            steps |-> <<"extractor", "empty", "jwt.Parse", "alg">>]
      ELSE [token |-> t.token, err |-> NilErr,
            steps |-> <<"extractor", "empty", "jwt.Parse", "alg">>]

\* setTokenToContext starting from an empty context
setTokenToContextBackground(req, key, token) ==
  [req EXCEPT !.ctx = ContextWithValue(<<>>, key, token)]

\* setTokenToContext: a copy of the request with a child context
setTokenToContext(req, key, token) ==
  [req EXCEPT !.ctx = ContextWithValue(req.ctx, key, token)]

\* the final handlers: handlerFunc of the tests, and one that writes nothing
CallFinal(fn, w, req) ==
  CASE fn = "handlerFunc" -> Write(WriteHeader(w, StatusOK), "OK")
    [] OTHER              -> w

\* the entry of the call log for a call of the error handler
ErrorCall(req, p) ==
  [callee |-> "errorHandler", req |-> req, err |-> p.err, steps |-> p.steps]

\* the entry of the call log for a call of the downstream handler
NextCall(req, p) ==
  [callee |-> "next", req |-> req, err |-> NilErr, steps |-> p.steps]

\* the outcome d of a call, after the calls cs
After(cs, d) == [w |-> d.w, calls |-> cs \o d.calls]

RECURSIVE Handler(_, _, _, _)

\* A call of the downstream handler hh = [inner, fn]: the Handler of the
\* next middleware instance wrapped around the rest, or the final handler
\* when there is none.  calls lists the calls the middleware instances
\* make, in order.
ServeHTTP(hh, w, req) ==
  IF hh.inner = <<>>
  THEN [w |-> CallFinal(hh.fn, w, req), calls |-> <<>>]
  ELSE Handler(Head(hh.inner), [hh EXCEPT !.inner = Tail(@)], w, req)

\* Handler without the return after the call of the error handler
HandlerMissingReturn(mw, hh, w, req) ==
  LET p == parseToken(mw, req)
      derived == setTokenToContext(req, mw.options.userProperty, p.token)
  IN  IF p.err # NilErr
      THEN After(<<ErrorCall(req, p), NextCall(derived, p)>>,
                 ServeHTTP(hh, CallErrorHandler(mw.options.errorHandler, w, req, p.err),
                           derived))
      ELSE After(<<NextCall(derived, p)>>, ServeHTTP(hh, w, derived))

\* the handler returned by mw.Handler(hh), serving (w, req)
Handler(mw, hh, w, req) ==
  LET p == parseToken(mw, req)
      derived == setTokenToContext(req, mw.options.userProperty, p.token)
  IN  IF p.err # NilErr
      THEN After(<<ErrorCall(req, p)>>,
                 [w |-> CallErrorHandler(mw.options.errorHandler, w, req, p.err),
                  calls |-> <<>>])
      ELSE After(<<NextCall(derived, p)>>, ServeHTTP(hh, w, derived))

\* HandlerNext passing the incoming request on to next
HandlerNextOriginalRequest(mw, hh, w, req) ==
  LET p == parseToken(mw, req)
  IN  IF p.err # NilErr
      THEN After(<<ErrorCall(req, p)>>,
                 [w |-> CallErrorHandler(mw.options.errorHandler, w, req, p.err),
                  calls |-> <<>>])
      ELSE After(<<NextCall(req, p)>>, ServeHTTP(hh, w, req))

\* mw.HandlerNext(w, req, next) with next = hh.ServeHTTP
HandlerNext(mw, hh, w, req) ==
  LET p == parseToken(mw, req)
      derived == setTokenToContext(req, mw.options.userProperty, p.token)
  IN  IF p.err # NilErr
      THEN After(<<ErrorCall(req, p)>>,
                 [w |-> CallErrorHandler(mw.options.errorHandler, w, req, p.err),
                  calls |-> <<>>])
      ELSE After(<<NextCall(derived, p)>>, ServeHTTP(hh, w, derived))

\* ------------------------------------------------------------------------
\* inputs
\* ------------------------------------------------------------------------
\* token strings: HS256 signed with "secret" (two claim sets), HS256 signed
\* with "wrong", HS384 signed with "secret", an unregistered algorithm, and
\* one that is not three segments
tokHS == <<"h", ".", "p", ".", "s">>
tokHS2 == <<"h", ".", "q", ".", "s">>
tokHW == <<"h", ".", "p", ".", "w">>
tokGS == <<"g", ".", "p", ".", "S">>
tokU == <<"u", ".", "p", ".", "s">>
tokBad == <<"i", ".", "t">>

jwt == <<"j","w","t">>
token == <<"t","o","k","e","n">>
Basic == <<"B","a","s","i","c">>

\* casings under which a caller sets the Authorization header
AuthorizationCasings ==
  { <<"a","u","t","h","o","r","i","z","a","t","i","o","n">>,
    <<"A","U","T","H","O","R","I","Z","A","T","I","O","N">>,
    <<"A","U","t","h","o","r","i","z","A","T","I","O","N">>,
    Authorization }

HeaderNames == AuthorizationCasings \cup { <<"x","-","a","u","t","h">> }

BearerCasings ==
  { bearer, <<"B","e","a","r","e","r">>, <<"B","E","A","R","E","R">>,
    <<"b","E","a","R","e","R">> }

Words == BearerCasings \cup { <<>>, Basic, token, <<"a">> }

QueryKeys == { jwt, <<"f">>, <<>>, <<":">>, token }
QueryValues == { token, <<>>, <<"a">> }
Pairs == { <<k, v>> : k \in QueryKeys, v \in QueryValues }

\* the raw query that carries the pairs
RECURSIVE EncodeQuery(_)
EncodeQuery(pairs) ==
  IF pairs = <<>> THEN <<>>
  ELSE IF Len(pairs) = 1 THEN pairs[1][1] \o <<"=">> \o pairs[1][2]
  ELSE pairs[1][1] \o <<"=">> \o pairs[1][2] \o <<"&">> \o EncodeQuery(Tail(pairs))

NoHeader == <<>>

\* httptest.NewRequest("GET", "/fake?<pairs>", nil) with the context in.ctx,
\* then r.Header.Set(name, <words joined by spaces>) when a header is given
NewRequest(in) ==
  [Header   |-> IF in.hdr = Nil THEN NoHeader
                ELSE HeaderSet(NoHeader, in.hdr[1].name, Join(in.hdr[1].words, " ")),
   RawQuery |-> EncodeQuery(in.pairs),
   ctx      |-> in.ctx]

Adapters == {"Handler", "HandlerNext"}
Finals == {"handlerFunc", "silent"}

Options ==
  { WithSignKey(<<secret>>), WithSignKey(<<wrong>>),
    WithSigningMethod(Nil), WithSigningMethod(SigningMethodES512),
    WithUserProperty("user"), WithUserProperty("claims"),
    WithErrorHandler("badRequest"),
    WithExtractor(QueryStringExtractorFn(jwt)), WithExtractor(emptyExtractorFn),
    WithExtractor(failingExtractorFn), WithExtractor(BearerExtractorFn) }

OptionLists == SeqsUpTo(Options, MaxOpts)

Hdr(name, words) == <<[name |-> name, words |-> words]>>

PipelineHeaders ==
  { Nil, Hdr(Authorization, <<Basic, tokHS>>) } \cup
  { Hdr(Authorization, <<bearer, t>>) : t \in {tokHS, tokHW, tokGS, tokBad} }

PipelineQueries == { <<>>, << <<jwt, tokHS>> >>, << <<jwt, tokU>> >> }

PipelineInputs == [hdr : PipelineHeaders, pairs : PipelineQueries, ctx : {<<>>}]

\* ------------------------------------------------------------------------
\* The pipeline: one middleware instance m in front of the final handler
\* h.fn; the request r is served through each of the two adapters.
\* ------------------------------------------------------------------------
Init ==
  /\ args \in OptionLists
  /\ m = New(args)
  /\ h \in [inner : {<<>>}, fn : Finals]
  /\ reqIn \in PipelineInputs
  /\ r = NewRequest(reqIn)
  /\ served = [a \in Adapters |-> Nil]
  /\ ret = Nil
  /\ procs = <<>>

\* m.Handler(h).ServeHTTP(w, r) with a fresh recorder w
ServeHandler ==
  /\ served["Handler"] = Nil
  /\ served' = [served EXCEPT !["Handler"] = <<Handler(m, h, NewRecorder, r)>>]
  /\ UNCHANGED <<m, h, args, reqIn, r, ret, procs>>

\* m.HandlerNext(w, r, h.ServeHTTP) with a fresh recorder w
ServeHandlerNext ==
  /\ served["HandlerNext"] = Nil
  /\ served' = [served EXCEPT !["HandlerNext"] = <<HandlerNext(m, h, NewRecorder, r)>>]
  /\ UNCHANGED <<m, h, args, reqIn, r, ret, procs>>

Next == ServeHandler \/ ServeHandlerNext

Spec == Init /\ [][Next]_vars

\* ------------------------------------------------------------------------
\* Direct calls of the extractors on requests made from many header values
\* and queries.
\* ------------------------------------------------------------------------
ExtractInputs ==
  [hdr   : {Nil} \cup {Hdr(n, ws) : n \in HeaderNames, ws \in SeqsUpTo(Words, MaxWords)},
   pairs : { <<>>, << <<jwt, token>> >> },
   ctx   : {<<>>}]
  \cup
  [hdr   : {Nil, Hdr(Authorization, <<bearer, token>>)},
   pairs : SeqsUpTo(Pairs, MaxPairs),
   ctx   : {<<>>}]

InitExtract ==
  /\ args = <<>>
  /\ m = New(args)
  /\ h = [inner |-> <<>>, fn |-> "handlerFunc"]
  /\ reqIn \in ExtractInputs
  /\ r = NewRequest(reqIn)
  /\ served = [a \in Adapters |-> Nil]
  /\ ret = Nil
  /\ procs = <<>>

\* BearerExtractor(r)
CallBearerExtractor ==
  /\ ret' = <<[fn |-> "BearerExtractor", param |-> <<>>, out |-> BearerExtractor(r)]>>
  /\ UNCHANGED <<m, h, args, reqIn, r, served, procs>>

\* QueryStringExtractor(param)(r)
CallQueryStringExtractor ==
  \E param \in QueryKeys :
    /\ ret' = <<[fn |-> "QueryStringExtractor", param |-> param,
                 out |-> CallExtractor(QueryStringExtractorFn(param), r)]>>
    /\ UNCHANGED <<m, h, args, reqIn, r, served, procs>>

NextExtract == CallBearerExtractor \/ CallQueryStringExtractor

SpecExtract == InitExtract /\ [][NextExtract]_vars

\* ------------------------------------------------------------------------
\* Properties of the extractors (SpecExtract)
\* ------------------------------------------------------------------------
BearerCalled == ret # Nil /\ ret[1].fn = "BearerExtractor"
QueryCalled == ret # Nil /\ ret[1].fn = "QueryStringExtractor"

\* the Authorization header is absent from the request
HeaderAbsent == reqIn.hdr = Nil \/ reqIn.hdr[1].name \notin AuthorizationCasings

\* C3: when the Authorization header, set under any casing of its name, is
\* "<scheme> <token>" with <scheme> a casing of "bearer" and <token> a
\* non-empty word, BearerExtractor returns <token> unchanged and a nil error
C3_BearerReturnsToken ==
  (/\ BearerCalled
   /\ ~HeaderAbsent
   /\ Len(reqIn.hdr[1].words) = 2
   /\ reqIn.hdr[1].words[1] \in BearerCasings
   /\ reqIn.hdr[1].words[2] # <<>>)
  => ret[1].out = [token |-> reqIn.hdr[1].words[2], err |-> NilErr]

C3_Witness ==
  /\ BearerCalled
  /\ reqIn.hdr = Hdr(<<"A","U","t","h","o","r","i","z","A","T","I","O","N">>,
                     << <<"b","E","a","R","e","R">>, token >>)
  /\ ret[1].out.token = token

\* C4: BearerExtractor fails with ErrEmptyToken exactly when the header is
\* absent or empty, and with ErrTokenMalformed exactly when the header is
\* non-empty and is not two space-separated parts, or its first part is not
\* a casing of "bearer", or its second part is empty; a failure returns ""
C4_BearerClassifiesFailures ==
  BearerCalled =>
    LET words == IF reqIn.hdr = Nil THEN <<>> ELSE reqIn.hdr[1].words
        empty == HeaderAbsent \/ Join(words, " ") = <<>>
        malformed == /\ ~empty
                     /\ \/ Len(words) # 2
                        \/ words[1] \notin BearerCasings
                        \/ words[2] = <<>>
    IN  /\ ret[1].out.err = ErrEmptyToken <=> empty
        /\ ret[1].out.err = ErrTokenMalformed <=> malformed
        /\ ret[1].out.err # NilErr => ret[1].out.token = <<>>

\* "Bearer a b" is malformed
C4_Witness ==
  /\ BearerCalled
  /\ reqIn.hdr = Hdr(Authorization, << <<"B","e","a","r","e","r">>, <<"a">>, <<"a">> >>)
  /\ ret[1].out = [token |-> <<>>, err |-> ErrTokenMalformed]

\* the value of query parameter key in the pairs of a URL: the value of the
\* first pair with that key, "" when there is none
RECURSIVE ValueOf(_, _)
ValueOf(pairs, key) ==
  IF pairs = <<>> THEN <<>>
  ELSE IF pairs[1][1] = key THEN pairs[1][2]
  ELSE ValueOf(Tail(pairs), key)

\* C5: QueryStringExtractor(p) returns the value of query parameter p with a
\* nil error when that value is non-empty, and "" with the not-found error
\* otherwise; on /fake?jwt=token only p = "jwt" finds a token
C5_QueryStringExtractorReadsParam ==
  QueryCalled =>
    LET v == ValueOf(reqIn.pairs, ret[1].param)
    IN  /\ v # <<>> => ret[1].out = [token |-> v, err |-> NilErr]
        /\ v = <<>> => ret[1].out = [token |-> <<>>, err |-> ErrQueryNotFound]
        /\ reqIn.pairs = << <<jwt, token>> >> =>
             ret[1].out = IF ret[1].param = jwt
                          THEN [token |-> token, err |-> NilErr]
                          ELSE [token |-> <<>>, err |-> ErrQueryNotFound]

\* the parameter is present with an empty value, after another parameter
C5_Witness ==
  /\ QueryCalled
  /\ reqIn.pairs = << <<token, <<"a">> >>, <<jwt, <<>> >> >>
  /\ ret[1].param = jwt
  /\ ret[1].out.err = ErrQueryNotFound

\* ------------------------------------------------------------------------
\* Properties of the pipeline (Spec)
\* ------------------------------------------------------------------------
Served(a) == served[a] # Nil
Outcome(a) == served[a][1]

\* C1: serving a request through Handler or HandlerNext calls exactly one of
\* the error handler and the downstream handler, once: the downstream
\* handler if and only if parseToken returned no error, and the response is
\* what that one call wrote
C1_ExactlyOneCallee ==
  \A a \in Adapters :
    Served(a) =>
      LET o == Outcome(a)
          p == parseToken(m, r)
      IN  /\ Len(o.calls) = 1
          /\ o.calls[1].callee \in {"errorHandler", "next"}
          /\ o.calls[1].callee = "next" <=> p.err = NilErr
          /\ o.w = IF p.err = NilErr
                   THEN CallFinal(h.fn, NewRecorder, o.calls[1].req)
                   ELSE CallErrorHandler(m.options.errorHandler, NewRecorder, r, p.err)

\* the token of the tests with the key "wrong": rejected, 401
C1_Witness ==
  /\ Served("Handler")
  /\ m.options.signKey = <<wrong>>
  /\ reqIn.hdr = Hdr(Authorization, <<bearer, tokHS>>)
  /\ Outcome("Handler").calls[1].callee = "errorHandler"
  /\ Outcome("Handler").w.Code = StatusUnauthorized

\* C2: for a token the library verified with the configured key, the result
\* of parseToken is jwt.ErrSignatureInvalid exactly when an expected signing
\* method is configured and the "alg" of the token's header is not its name;
\* in every other case the verified token is returned with no error
C2_AlgorithmCheck ==
  \A a \in Adapters :
    LET e == CallExtractor(m.options.extractor, r)
        lib == jwtParse(e.token, m.options.signKey)
        mismatch == /\ m.options.signingMethod # Nil
                    /\ lib.token.Header.alg # m.options.signingMethod[1].Name
    IN  (Served(a) /\ e.err = NilErr /\ e.token # <<>> /\ lib.err = NilErr) =>
          LET c == Outcome(a).calls[1]
          IN  /\ c.err = ErrSignatureInvalid <=> mismatch
              /\ ~mismatch =>
                   /\ c.callee = "next"
                   /\ ContextValue(c.req.ctx, m.options.userProperty) = lib.token

\* a token signed HS256 with the right key, ES512 expected
C2_Witness ==
  /\ Served("Handler")
  /\ m.options.signingMethod = SigningMethodES512
  /\ m.options.signKey = <<secret>>
  /\ reqIn.hdr = Hdr(Authorization, <<bearer, tokHS>>)
  /\ Outcome("Handler").calls[1].err = ErrSignatureInvalid

\* the field a With* option writes
FieldOf ==
  ("WithErrorHandler" :> "errorHandler") @@ ("WithExtractor" :> "extractor") @@
  ("WithSigningMethod" :> "signingMethod") @@ ("WithSignKey" :> "signKey") @@
  ("WithUserProperty" :> "userProperty")

\* the documented defaults
DocumentedDefault ==
  ("signKey" :> Nil) @@ ("signingMethod" :> <<[Name |-> "HS256"]>>) @@
  ("userProperty" :> "user") @@ ("errorHandler" :> "onError") @@
  ("extractor" :> [kind |-> "BearerExtractor", param |-> <<>>])

C7_AdaptersEquivalent ==
  (Served("Handler") /\ Served("HandlerNext")) =>
     Outcome("Handler") = Outcome("HandlerNext")

C7_Witness ==
  /\ Served("Handler")
  /\ Served("HandlerNext")
  /\ Outcome("HandlerNext").calls[1].callee = "next"
  /\ Outcome("HandlerNext").w.Code = StatusOK
  /\ h.fn = "handlerFunc"

\* s is an initial part of t
IsPrefix(s, t) == Len(s) <= Len(t) /\ s = SubSeq(t, 1, Len(s))

\* C10: the steps run in the order extractor, empty-string check, library
\* parse, algorithm check; the first failing step ends the pipeline and the
\* error handler gets the incoming request and that step's error unchanged
C10_FirstFailureEndsPipeline ==
  \A a \in Adapters :
    Served(a) =>
      LET c == Outcome(a).calls[1]
          e == CallExtractor(m.options.extractor, r)
          lib == jwtParse(e.token, m.options.signKey)
      IN  /\ IsPrefix(c.steps, <<"extractor", "empty", "jwt.Parse", "alg">>)
          /\ c.callee = "errorHandler" => c.req = r
          /\ c.callee = "next" => Len(c.steps) = 4
          /\ e.err # NilErr =>
               c.callee = "errorHandler" /\ c.err = e.err /\ c.steps = <<"extractor">>
          /\ (e.err = NilErr /\ e.token = <<>>) =>
               /\ c.callee = "errorHandler"
               /\ c.err = ErrEmptyToken
               /\ c.steps = <<"extractor", "empty">>
          /\ (e.err = NilErr /\ e.token # <<>> /\ lib.err # NilErr) =>
               /\ c.callee = "errorHandler"
               /\ c.err = lib.err
               /\ c.steps = <<"extractor", "empty", "jwt.Parse">>

\* the extractor of the tests: "" and a nil error
C10_Witness ==
  /\ Served("HandlerNext")
  /\ m.options.extractor = emptyExtractorFn
  /\ Outcome("HandlerNext").calls[1].err = ErrEmptyToken
  /\ Outcome("HandlerNext").calls[1].steps = <<"extractor", "empty">>

\* ------------------------------------------------------------------------
\* A chain of middleware instances: m.Handler(m2.Handler(... final)), each
\* instance with its own user property and extractor.
\* ------------------------------------------------------------------------
ChainKeys == {"user", "claims", "session"}

ChainOptionLists ==
  { <<WithSignKey(<<secret>>), WithUserProperty(k), WithExtractor(e)>> :
      k \in ChainKeys, e \in {BearerExtractorFn, QueryStringExtractorFn(jwt)} }

\* a value some other code stored in the context of the incoming request
OtherValue == [id |-> "trace-7"]

ChainInputs ==
  [hdr   : {Hdr(Authorization, <<bearer, tokHS>>), Hdr(Authorization, <<bearer, tokHW>>)},
   pairs : { <<>>, << <<jwt, tokHS2>> >> },
   ctx   : { <<>>, << <<"trace", OtherValue>> >>, << <<"user", OtherValue>> >> }]

InitChain ==
  /\ args \in ChainOptionLists
  /\ m = New(args)
  /\ h \in [inner : SeqsUpTo({New(o) : o \in ChainOptionLists}, MaxInner),
            fn : {"handlerFunc"}]
  /\ reqIn \in ChainInputs
  /\ r = NewRequest(reqIn)
  /\ served = [a \in Adapters |-> Nil]
  /\ ret = Nil
  /\ procs = <<>>

SpecChain == InitChain /\ [][Next]_vars

\* the instances in the order the request passes them
Chain == <<m>> \o h.inner

\* the request the i-th instance of the chain was given
Received(o, i) == IF i = 1 THEN r ELSE o.calls[i-1].req

\* C8: on success the downstream handler gets a derived request whose
\* context maps the user property to the verified token (Raw is the
\* extracted string, Valid is true), every entry under another key keeps its
\* value, and the incoming request is unchanged; after a chain of instances
\* with pairwise different user properties the final handler sees the token
\* of every instance under its key
C8_ContextPropagation ==
  \A a \in Adapters :
    Served(a) =>
      LET o == Outcome(a)
          n == Cardinality({i \in 1..Len(o.calls) : o.calls[i].callee = "next"})
      IN  /\ r = NewRequest(reqIn)
          /\ \A i \in 1..n :
               LET c == o.calls[i]
                   key == Chain[i].options.userProperty
                   tok == ContextValue(c.req.ctx, key)
               IN  /\ c.callee = "next"
                   /\ tok = parseToken(Chain[i], Received(o, i)).token
                   /\ tok.Raw = CallExtractor(Chain[i].options.extractor, r).token
                   /\ tok.Raw # <<>>
                   /\ tok.Valid
                   /\ c.req.Header = r.Header
                   /\ c.req.RawQuery = r.RawQuery
                   /\ \A k \in (ChainKeys \cup {"trace"}) \ {key} :
                        ContextValue(c.req.ctx, k) = ContextValue(Received(o, i).ctx, k)
          /\ (/\ n > 0
              /\ \A i, j \in 1..n :
                   i # j => Chain[i].options.userProperty # Chain[j].options.userProperty)
             => \A i \in 1..n :
                  ContextValue(o.calls[n].req.ctx, Chain[i].options.userProperty)
                    = parseToken(Chain[i], r).token

\* three instances with three keys and two different tokens, in front of a
\* context that already has an entry
C8_Witness ==
  /\ Served("Handler")
  /\ Len(Outcome("Handler").calls) = 3
  /\ \A i \in 1..3 : Outcome("Handler").calls[i].callee = "next"
  /\ Cardinality({Chain[i].options.userProperty : i \in 1..3}) = 3
  /\ reqIn.ctx = << <<"trace", OtherValue>> >>
  /\ ContextValue(Outcome("Handler").calls[3].req.ctx, Chain[1].options.userProperty).Raw = tokHS
  /\ ContextValue(Outcome("Handler").calls[3].req.ctx, Chain[2].options.userProperty).Raw = tokHS2
  /\ ContextValue(Outcome("Handler").calls[3].req.ctx, "trace") = OtherValue

\* ------------------------------------------------------------------------
\* The error handler, called by the pipeline and directly (as TestNew does)
\* ------------------------------------------------------------------------
Errors ==
  { ErrEmptyToken, ErrTokenMalformed, ErrQueryNotFound, ErrSignatureInvalid,
    ValidationErrorMalformed, ValidationErrorUnverifiable,
    ValidationErrorSignatureInvalid, ErrCustomExtractor }

ErrInputs ==
  [hdr   : {Nil} \cup {Hdr(Authorization, <<bearer, t>>) : t \in {tokHS, tokHW, tokBad}},
   pairs : { <<>> },
   ctx   : { <<>> }]

InitErr ==
  /\ args \in OptionLists
  /\ m = New(args)
  /\ h = [inner |-> <<>>, fn |-> "handlerFunc"]
  /\ reqIn \in ErrInputs
  /\ r = NewRequest(reqIn)
  /\ served = [a \in Adapters |-> Nil]
  /\ ret = Nil
  /\ procs = <<>>

\* m.options.errorHandler(w, r, err) with a fresh recorder w
DirectErrorHandler ==
  \E err \in Errors \cup {NilErr} :
    /\ ret' = <<[fn |-> "errorHandler", err |-> err,
                 out |-> CallErrorHandler(m.options.errorHandler, NewRecorder, r, err)]>>
    /\ UNCHANGED <<m, h, args, reqIn, r, served, procs>>

NextErr == ServeHandler \/ ServeHandlerNext \/ DirectErrorHandler

SpecErr == InitErr /\ [][NextErr]_vars

\* New was called without WithErrorHandler
NoWithErrorHandler == \A i \in 1..Len(args) : args[i].fn # "WithErrorHandler"

Unauthorized == [Code |-> 401, Body |-> <<"unauthorized">>, wroteHeader |-> TRUE]

\* C9: the error handler of a middleware built without WithErrorHandler
\* writes status 401 and the body "unauthorized" for every request and every
\* error, nil included, and a rejected request gets nothing else: the
\* downstream handler is not called
C9_DefaultErrorResponseIsFixed ==
  NoWithErrorHandler =>
    /\ ret # Nil => ret[1].out = Unauthorized
    /\ \A a \in Adapters :
         (Served(a) /\ parseToken(m, r).err # NilErr) =>
            /\ Outcome(a).w = Unauthorized
            /\ Len(Outcome(a).calls) = 1
            /\ Outcome(a).calls[1].callee = "errorHandler"

C9_Witness ==
  /\ NoWithErrorHandler
  /\ ret # Nil
  /\ ret[1].err = NilErr
  /\ ret[1].out.Code = 401
  /\ Served("Handler")
  /\ Outcome("Handler").calls[1].err = ValidationErrorSignatureInvalid
  /\ Outcome("Handler").w.Body = <<"unauthorized">>

\* ------------------------------------------------------------------------
\* Concurrent requests: the server runs one goroutine per request, all
\* through the same *Middleware.  A goroutine runs the statements of
\* the adapter and of parseToken one at a time; every statement reads the
\* options through the shared pointer m.options at the moment it runs.
\* A step gives the middleware and the goroutine's locals after it.
\* ------------------------------------------------------------------------
\* token, err := m.options.extractor(r); if err != nil { return nil, err }
ExtractStep(mw, p) ==
  LET e == CallExtractor(mw.options.extractor, p.req)
  IN  [mw |-> mw,
       p  |-> IF e.err # NilErr
              THEN [p EXCEPT !.parsed = [token |-> NilToken, err |-> e.err,
                                         steps |-> <<"extractor">>],
                             !.pc = "dispatch"]
              ELSE [p EXCEPT !.tokenString = e.token,
                             !.parsed.steps = <<"extractor">>,
                             !.pc = "empty"]]

\* if token == "" { return nil, ErrEmptyToken }
EmptyStep(mw, p) ==
  [mw |-> mw,
   p  |-> IF p.tokenString = <<>>
          THEN [p EXCEPT !.parsed = [token |-> NilToken, err |-> ErrEmptyToken,
                                     steps |-> Append(p.parsed.steps, "empty")],
                         !.pc = "dispatch"]
          ELSE [p EXCEPT !.parsed.steps = Append(@, "empty"), !.pc = "jwt.Parse"]]

\* t, err := jwt.Parse(token, keyFunc); if err != nil { return nil, err }
ParseStep(mw, p) ==
  LET t == jwtParse(p.tokenString, mw.options.signKey)
  IN  [mw |-> mw,
       p  |-> IF t.err # NilErr
              THEN [p EXCEPT !.parsed = [token |-> NilToken, err |-> t.err,
                                         steps |-> Append(p.parsed.steps, "jwt.Parse")],
                             !.pc = "dispatch"]
              ELSE [p EXCEPT !.t = t.token,
                             !.parsed.steps = Append(@, "jwt.Parse"),
                             !.pc = "alg"]]

\* the algorithm check taking the method of the first token as the expected
\* one when none is configured
AlgStepSetsMethod(mw, p) ==
  LET mw1 == IF mw.options.signingMethod = Nil
             THEN [mw EXCEPT !.options.signingMethod = <<[Name |-> p.t.Header.alg]>>]
             ELSE mw
  IN  [mw |-> mw1,
       p  |-> IF p.t.Header.alg # Alg(mw1.options.signingMethod)
              THEN [p EXCEPT !.parsed = [token |-> NilToken, err |-> ErrSignatureInvalid,
                                         steps |-> Append(p.parsed.steps, "alg")],
                             !.pc = "dispatch"]
              ELSE [p EXCEPT !.parsed = [token |-> p.t, err |-> NilErr,
                                         steps |-> Append(p.parsed.steps, "alg")],
                             !.pc = "dispatch"]]

\* if m.options.signingMethod != nil && t.Header["alg"] != ...Alg() {
\*   return nil, jwt.ErrSignatureInvalid }; return t, nil
AlgStep(mw, p) ==
  [mw |-> mw,
   p  |-> IF mw.options.signingMethod # Nil
             /\ p.t.Header.alg # Alg(mw.options.signingMethod)
          THEN [p EXCEPT !.parsed = [token |-> NilToken, err |-> ErrSignatureInvalid,
                                     steps |-> Append(p.parsed.steps, "alg")],
                         !.pc = "dispatch"]
          ELSE [p EXCEPT !.parsed = [token |-> p.t, err |-> NilErr,
                                     steps |-> Append(p.parsed.steps, "alg")],
                         !.pc = "dispatch"]]

\* if err != nil { m.options.errorHandler(w, r, err); return }
\* h.ServeHTTP(w, setTokenToContext(r, m.options.userProperty, token))
\* (Handler), or next(w, setTokenToContext(...)) (HandlerNext)
DispatchStep(mw, hh, p) ==
  LET derived == setTokenToContext(p.req, mw.options.userProperty, p.parsed.token)
  IN  [mw |-> mw,
       p  |-> [p EXCEPT
                 !.pc = "done",
                 !.out =
                   IF p.parsed.err # NilErr
                   THEN <<After(<<ErrorCall(p.req, p.parsed)>>,
                                [w |-> CallErrorHandler(mw.options.errorHandler,
                                                        NewRecorder, p.req, p.parsed.err),
                                 calls |-> <<>>])>>
                   ELSE <<After(<<NextCall(derived, p.parsed)>>,
                                ServeHTTP(hh, NewRecorder, derived))>>]]

\* a goroutine about to serve req through the adapter
NewProc(req, adapter) ==
  [req |-> req, adapter |-> adapter, pc |-> "extractor", tokenString |-> <<>>,
   t |-> NilToken, parsed |-> [token |-> NilToken, err |-> NilErr, steps |-> <<>>],
   out |-> Nil]

ConcOptionLists ==
  { <<WithSignKey(<<secret>>)>>,
    <<WithSignKey(<<secret>>), WithSigningMethod(Nil)>>,
    <<WithSignKey(<<wrong>>), WithSigningMethod(Nil)>>,
    <<WithSignKey(<<secret>>), WithExtractor(QueryStringExtractorFn(jwt))>>,
    <<WithExtractor(emptyExtractorFn), WithErrorHandler("badRequest")>> }

ConcInputs ==
  [hdr   : {Hdr(Authorization, <<bearer, t>>) : t \in {tokHS, tokGS}} \cup {Nil},
   pairs : { << <<jwt, tokHS2>> >> },
   ctx   : { <<>> }]

InitConc ==
  /\ args \in ConcOptionLists
  /\ m = New(args)
  /\ h = [inner |-> <<>>, fn |-> "handlerFunc"]
  /\ reqIn = [hdr |-> Nil, pairs |-> <<>>, ctx |-> <<>>]
  /\ r = NewRequest(reqIn)
  /\ served = [a \in Adapters |-> Nil]
  /\ ret = Nil
  /\ procs \in [1..NumReqs -> {NewProc(NewRequest(in), a) : in \in ConcInputs, a \in Adapters}]

\* goroutine i runs the statement it is at
Run(i, res) ==
  /\ m' = res.mw
  /\ procs' = [procs EXCEPT ![i] = res.p]
  /\ UNCHANGED <<h, args, reqIn, r, served, ret>>

Extract == \E i \in DOMAIN procs :
  procs[i].pc = "extractor" /\ Run(i, ExtractStep(m, procs[i]))

Empty == \E i \in DOMAIN procs :
  procs[i].pc = "empty" /\ Run(i, EmptyStep(m, procs[i]))

Parse == \E i \in DOMAIN procs :
  procs[i].pc = "jwt.Parse" /\ Run(i, ParseStep(m, procs[i]))

CheckAlg == \E i \in DOMAIN procs :
  procs[i].pc = "alg" /\ Run(i, AlgStep(m, procs[i]))

Dispatch == \E i \in DOMAIN procs :
  procs[i].pc = "dispatch" /\ Run(i, DispatchStep(m, h, procs[i]))

NextConc == Extract \/ Empty \/ Parse \/ CheckAlg \/ Dispatch

SpecConc == InitConc /\ [][NextConc]_vars

\* the outcome of serving the request of p alone through a middleware made
\* by New with the same options
Alone(p) ==
  IF p.adapter = "Handler"
  THEN Handler(New(args), h, NewRecorder, p.req)
  ELSE HandlerNext(New(args), h, NewRecorder, p.req)

\* C11: however the requests handled concurrently through one middleware
\* interleave, the configuration stays the one New built, and every request
\* ends with the outcome (callee, error, derived request with the token,
\* response) it has when it is handled alone
C11_ConfigurationReadOnly ==
  /\ m = New(args)
  /\ \A i \in DOMAIN procs :
       procs[i].pc = "done" => procs[i].out = <<Alone(procs[i])>>

\* with no expected method, an HS384 token was accepted while the request
\* with an HS256 token is between the library's parse and the algorithm
\* check, and a third party's view of the configuration is unchanged
C11_Witness ==
  /\ m.options.signingMethod = Nil
  /\ m.options.signKey = <<secret>>
  /\ procs[1].pc = "done"
  /\ procs[1].out[1].calls[1].callee = "next"
  /\ ContextValue(procs[1].out[1].calls[1].req.ctx, "user").Raw = tokGS
  /\ procs[2].pc = "alg"
  /\ procs[2].tokenString = tokHS

====
